---------------------------- MODULE Spec2Model ----------------------------
(***************************************************************************)
(* Model of the cheat-code unlock engine, src/src/cheat_codes.rs:          *)
(* CheatCodeResource { codes: HashMap<CheatCodeKind, CheatCode>,           *)
(* activated: Vec<CheatCodeKind> } with get_next_code, activate_code,      *)
(* is_code_activated and new.                                              *)
(*                                                                         *)
(* Modelling decisions:                                                    *)
(*  - a String is a sequence of one-character strings;                     *)
(*  - thread_rng() is a nondeterministic choice: the code generator takes  *)
(*    the drawn value as a parameter (seed), choose / choose_weighted      *)
(*    yield the set of values they can return;                             *)
(*  - the iteration order of the HashMap is unspecified but fixed for a    *)
(*    map that is never modified after construction: variable order;       *)
(*  - activated is a Vec that the code only pushes to and tests with       *)
(*    contains(): it is kept as a bag (the multiset of its elements), the  *)
(*    order of the elements is never read by the code;                     *)
(*  - a panic (unwrap of an Err) ends the session: no operation follows.   *)
(***************************************************************************)
EXTENDS Integers, Sequences, FiniteSets, Bags, TLC

(***************************************************************************)
(* Bounds of the model.                                                    *)
(***************************************************************************)
\* Largest number of abilities activated in the free-order specification Spec.
MaxActivated == 2
\* Number of concurrent callers in SpecConc.
NumCallers == 2
\* SpecGen: the random generator yields the multiples 0..MaxSeed of SeedStride.
MaxSeed == 70
SeedStride == 30000001

(***************************************************************************)
(* enum CheatCodeKind, in declaration order.                               *)
(***************************************************************************)
KindOrder ==
    << "Jump",
       "Crouch", "Attack", "AttackDmgBoost", "AttackFireRateBoost", "MoveLeft",
       "SpeedBoost1", "SpeedBoost2", "SpeedBoost3", "Armor", "Dash",
       "DoubleJump", "SpeedBoost4", "SpeedBoost5", "Shield",
       "ExtraLife", "TempInvicibility", "Fly" >>

CheatCodeKind == { KindOrder[i] : i \in DOMAIN KindOrder }

\* enum CheatCodeRarity
CheatCodeRarity == { "Mandatory", "Common", "Rare", "Legendary" }

\* `rarity as u8`: the discriminant of the enum is the weight.
Weight(rarity) ==
    CASE rarity = "Mandatory" -> 0
      [] rarity = "Common"    -> 10
      [] rarity = "Rare"      -> 5
      [] rarity = "Legendary" -> 2

(***************************************************************************)
(* generate_random_code                                                    *)
(***************************************************************************)
\* The characters of rand's Alphanumeric distribution.
Alphanumeric ==
    << "A", "B", "C", "D", "E", "F", "G", "H", "I", "J", "K", "L", "M",
       "N", "O", "P", "Q", "R", "S", "T", "U", "V", "W", "X", "Y", "Z",
       "a", "b", "c", "d", "e", "f", "g", "h", "i", "j", "k", "l", "m",
       "n", "o", "p", "q", "r", "s", "t", "u", "v", "w", "x", "y", "z",
       "0", "1", "2", "3", "4", "5", "6", "7", "8", "9" >>

\* The length policy with the lengths of Rare and Legendary exchanged.
CodeLengthSwapped(rarity) ==
    CASE rarity = "Mandatory" -> 4
      [] rarity = "Common"    -> 4
      [] rarity = "Rare"      -> 8
      [] rarity = "Legendary" -> 6

\* length is based on the rarity
CodeLength(rarity) ==
    CASE rarity = "Mandatory" -> 4
      [] rarity = "Common"    -> 4
      [] rarity = "Rare"      -> 6
      [] rarity = "Legendary" -> 8

\* The i-th digit (from 1, least significant first) of n in the given base.
RECURSIVE Digit(_, _, _)
Digit(n, base, i) ==
    IF i = 1 THEN n % base ELSE Digit(n \div base, base, i - 1)

\* Alphanumeric.sample_string(rng, length): length characters, each drawn
\* from Alphanumeric; seed is the value the random generator yields, its
\* i-th digit in base 62 picks the i-th character.
SampleString(seed, length) ==
    [ i \in 1..length |-> Alphanumeric[Digit(seed, Len(Alphanumeric), i) + 1] ]

GenerateRandomCode(rarity, seed) == SampleString(seed, CodeLength(rarity))

(***************************************************************************)
(* CheatCodeResource::new and insert_cheat                                 *)
(***************************************************************************)
\* The arguments of the insert_cheat calls of new(), in the order of the calls.
InsertCalls ==
    << [kind |-> "Jump", rarity |-> "Mandatory", dependencies |-> << >>, image |-> "jump.png"],
       [kind |-> "Crouch", rarity |-> "Common", dependencies |-> << >>, image |-> "crouch.png"],
       [kind |-> "Attack", rarity |-> "Common", dependencies |-> << >>, image |-> "attack.png"],
       [kind |-> "AttackDmgBoost", rarity |-> "Common",
        dependencies |-> << "Attack" >>, image |-> "attack_dmg_boost.png"],
       [kind |-> "AttackFireRateBoost", rarity |-> "Common",
        dependencies |-> << "Attack" >>, image |-> "attack_fr_boost.png"],
       [kind |-> "MoveLeft", rarity |-> "Common", dependencies |-> << >>, image |-> "move_left.png"],
       [kind |-> "SpeedBoost1", rarity |-> "Common", dependencies |-> << >>, image |-> "speed.png"],
       [kind |-> "SpeedBoost2", rarity |-> "Common",
        dependencies |-> << "SpeedBoost1" >>, image |-> "speed.png"],
       [kind |-> "SpeedBoost3", rarity |-> "Common",
        dependencies |-> << "SpeedBoost1", "SpeedBoost2" >>, image |-> "speed.png"],
       [kind |-> "Armor", rarity |-> "Common", dependencies |-> << >>, image |-> "armor.png"],
       [kind |-> "Dash", rarity |-> "Common", dependencies |-> << >>, image |-> "dash.png"],
       [kind |-> "DoubleJump", rarity |-> "Rare",
        dependencies |-> << "Jump" >>, image |-> "double_jump.png"],
       [kind |-> "SpeedBoost4", rarity |-> "Rare",
        dependencies |-> << "SpeedBoost1", "SpeedBoost2", "SpeedBoost3" >>,
        image |-> "speed.png"],
       [kind |-> "SpeedBoost5", rarity |-> "Rare",
        dependencies |-> << "SpeedBoost1", "SpeedBoost2", "SpeedBoost3", "SpeedBoost4" >>,
        image |-> "speed.png"],
       [kind |-> "Shield", rarity |-> "Rare",
        dependencies |-> << "Jump" >>, image |-> "shield.png"],
       [kind |-> "ExtraLife", rarity |-> "Legendary",
        dependencies |-> << >>, image |-> "extra_life.png"],
       [kind |-> "TempInvicibility", rarity |-> "Legendary",
        dependencies |-> << "Armor", "Shield" >>, image |-> "temp_invincibility.png"],
       [kind |-> "Fly", rarity |-> "Legendary",
        dependencies |-> << "Jump", "DoubleJump" >>, image |-> "fly.png"] >>

\* CheatCode::new
NewCheatCode(kind, rarity, text, dependencies, image) ==
    [kind |-> kind, rarity |-> rarity, text |-> text,
     dependencies |-> dependencies, image |-> image]

\* insert_cheat that drops the dependencies it is given.
InsertCheatNoDependencies(map, kind, rarity, dependencies, image, seed) ==
    [ k \in (DOMAIN map) \cup {kind} |->
        IF k = kind
        THEN NewCheatCode(kind, rarity, GenerateRandomCode(rarity, seed),
                          << >>, image)
        ELSE map[k] ]

\* insert_cheat: codes.insert(kind, CheatCode::new(kind, rarity,
\* generate_random_code(rarity), dependencies, image_path)); an insert under
\* a key already present replaces the value.
InsertCheat(map, kind, rarity, dependencies, image, seed) ==
    [ k \in (DOMAIN map) \cup {kind} |->
        IF k = kind
        THEN NewCheatCode(kind, rarity, GenerateRandomCode(rarity, seed),
                          dependencies, image)
        ELSE map[k] ]

\* The HashMap after the first n insert_cheat calls of new(); seeds[i] is the
\* value the random generator yields in the i-th call.
RECURSIVE InsertedCodes(_, _)
InsertedCodes(n, seeds) ==
    IF n = 0 THEN << >>
    ELSE InsertCheat(InsertedCodes(n - 1, seeds),
                     InsertCalls[n].kind, InsertCalls[n].rarity,
                     InsertCalls[n].dependencies, InsertCalls[n].image, seeds[n])

\* CheatCodeResource::new: the codes field.
NewCodes(seeds) == InsertedCodes(Len(InsertCalls), seeds)


(***************************************************************************)
(* State                                                                   *)
(***************************************************************************)
VARIABLES
    codes,      \* CheatCodeResource.codes: CheatCodeKind -> CheatCode
    order,      \* the order in which codes.iter() yields the keys
    activated,  \* CheatCodeResource.activated, as the bag of its elements
    result,     \* the last call made on the resource and what it returned
    granted,    \* history: [text, kind] of every activate_code(text) that returned Activated(kind)
    callers,    \* SpecConc: the callers that share the resource behind a lock
    generated,  \* SpecGen: the last generate_random_code call and the String it returned
    player      \* SpecPlayer: the player entity after the last move_character frame

vars == << codes, order, activated, result, granted, callers, generated, player >>

NoKind == "NoKind"
NoText == << "-" >>

\* What a call returned: op is the method, outcome its result variant (or
\* "Panic"), kind the CheatCodeKind it carries, text the argument of
\* activate_code.
Returned(op, outcome, kind, text) ==
    [op |-> op, outcome |-> outcome, kind |-> kind, text |-> text]

\* The random values drawn by the 18 generate_random_code calls of new():
\* pairwise distinct ones; Constructions adds draws in which a later call
\* repeats the value of an earlier one of equal code length (Attack that of
\* Crouch, Dash that of Jump), so that two abilities get the same text.
DistinctSeeds == [ i \in DOMAIN InsertCalls |-> i ]

Reverse(s) == [ i \in DOMAIN s |-> s[Len(s) + 1 - i] ]

\* The constructions the model considers: the values drawn, and the order in
\* which the HashMap built from them iterates (the order matters only between
\* codes of equal text: the declaration order lets the first inserted of a
\* colliding pair come first, the reverse order the last inserted).
Constructions ==
    { [seeds |-> DistinctSeeds, order |-> KindOrder] } \cup
    { [seeds |-> draw, order |-> KindOrder] :
        draw \in { [ DistinctSeeds EXCEPT ![3] = DistinctSeeds[2] ] } } \cup
    { [seeds |-> draw, order |-> Reverse(KindOrder)] :
        draw \in { [ DistinctSeeds EXCEPT ![11] = DistinctSeeds[1] ] } }

\* A caller of SpecConc before it has asked for anything.
IdleCaller == [pc |-> "idle", text |-> NoText, outcome |-> "None", kind |-> NoKind]

\* No generate_random_code call has been made yet by the host.
NotGenerated == [rarity |-> "None", seed |-> 0, text |-> NoText]

\* The player as spawn_character leaves it, at rest: linvel_x is the sign of
\* rb_vel.linvel.x (an f32, of which the model keeps the sign only), space
\* whether Space was just released in the last frame, jumped whether that
\* frame called physics::jump.
SpawnedPlayer == [linvel_x |-> 0, space |-> FALSE, jumped |-> FALSE]

\* CheatCodeResource::new(): codes filled by the insert_cheat calls,
\* activated: Vec::new().
Init ==
    /\ \E c \in Constructions : codes = NewCodes(c.seeds) /\ order = c.order
    /\ activated = EmptyBag
    /\ result = Returned("new", "None", NoKind, NoText)
    /\ granted = {}
    /\ callers = [ c \in 1..NumCallers |-> IdleCaller ]
    /\ generated = NotGenerated
    /\ player = SpawnedPlayer

(***************************************************************************)
(* is_code_activated                                                       *)
(***************************************************************************)
\* self.activated.contains(kind)
IsCodeActivated(kind) == BagIn(kind, activated)

(***************************************************************************)
(* get_next_code                                                           *)
(***************************************************************************)
\* Mutant of AvailableCodes: the activation test of the filter is dropped.
AvailableCodesWithActivated ==
    { kind \in DOMAIN codes :
        Cardinality({ i \in DOMAIN codes[kind].dependencies :
                        ~BagIn(codes[kind].dependencies[i], activated) }) = 0 }

\* Mutant of MissingDeps: the dependencies are not looked at.
MissingDepsIgnored(code) == 0

\* Mutant of MissingDeps: every dependency counts as missing, activated or not.
MissingDepsCountingActivated(code) == Cardinality(DOMAIN code.dependencies)

\* Mutant of MissingDeps: only the first dependency is looked at.
MissingDepsFirstOnly(code) ==
    IF code.dependencies # << >> /\ ~IsCodeActivated(code.dependencies[1])
    THEN 1 ELSE 0

\* first get a list of mandatory cheat codes: the keys whose code has rarity
\* Mandatory and that are not activated.
Mandatories ==
    { kind \in DOMAIN codes :
        codes[kind].rarity = "Mandatory" /\ ~IsCodeActivated(kind) }

\* code.dependencies.iter().filter(|kind| !self.is_code_activated(kind)).count()
MissingDeps(code) ==
    Cardinality({ i \in DOMAIN code.dependencies :
                    ~IsCodeActivated(code.dependencies[i]) })

\* the codes that are not activated and have no missing dependency
AvailableCodes ==
    { kind \in DOMAIN codes :
        MissingDeps(codes[kind]) = 0 /\ ~IsCodeActivated(kind) }

\* Mutant of ChooseWeighted: an Err is replaced by the first kind of the enum
\* (unwrap_or) instead of being unwrapped.
ChooseWeightedOrDefault(kinds) ==
    IF kinds = {} \/ \A k \in kinds : Weight(codes[k].rarity) = 0
    THEN { KindOrder[1] }
    ELSE { k \in kinds : Weight(codes[k].rarity) > 0 }

\* slice.choose_weighted(rng, |code| code.rarity as u8): Err(NoItem) on an
\* empty slice, Err(AllWeightsZero) when the weights sum to zero (they are
\* unsigned: when none is positive), else Ok of an element of positive
\* weight. The set of the values it can return; "Err" stands for both errors.
ChooseWeighted(kinds) ==
    IF kinds = {} \/ \A k \in kinds : Weight(codes[k].rarity) = 0
    THEN { "Err" }
    ELSE { k \in kinds : Weight(codes[k].rarity) > 0 }

\* Mutant of GetNextCodeResults: the mandatory codes are not served first.
GetNextCodeNoMandatory ==
    { IF k = "Err"
      THEN Returned("get_next_code", "Panic", NoKind, NoText)
      ELSE Returned("get_next_code", "Kind", codes[k].kind, NoText) :
      k \in ChooseWeighted(AvailableCodes) }

\* The values get_next_code can return in the current state: Kind(k), or
\* Panic when unwrap() meets the Err of choose_weighted.
GetNextCodeResults ==
    IF Mandatories # {}
    THEN { Returned("get_next_code", "Kind", codes[k].kind, NoText) : k \in Mandatories }
    ELSE { IF k = "Err"
           THEN Returned("get_next_code", "Panic", NoKind, NoText)
           ELSE Returned("get_next_code", "Kind", codes[k].kind, NoText) :
           k \in ChooseWeighted(AvailableCodes) }

(***************************************************************************)
(* activate_code                                                           *)
(***************************************************************************)
\* Mutant of FindCode: the texts are compared with starts_with instead of eq.
RECURSIVE FindCodePrefix(_, _)
FindCodePrefix(i, text) ==
    IF i > Len(order) THEN 0
    ELSE IF /\ Len(text) <= Len(codes[order[i]].text)
            /\ SubSeq(codes[order[i]].text, 1, Len(text)) = text
         THEN i
         ELSE FindCodePrefix(i + 1, text)

\* Mutant of FindCode: the scan goes on past a match that is already activated.
RECURSIVE FindCodeSkippingActivated(_, _)
FindCodeSkippingActivated(i, text) ==
    IF i > Len(order) THEN 0
    ELSE IF codes[order[i]].text = text /\ ~IsCodeActivated(codes[order[i]].kind)
         THEN i
         ELSE FindCodeSkippingActivated(i + 1, text)

\* The position in the iteration of the first code at or after position i
\* whose text equals text, 0 when there is none.
RECURSIVE FindCode(_, _)
FindCode(i, text) ==
    IF i > Len(order) THEN 0
    ELSE IF codes[order[i]].text = text THEN i
    ELSE FindCode(i + 1, text)

\* Mutant of ActivateCodeResult: the is_code_activated test is missing.
ActivateCodeResultNoCheck(text) ==
    LET i == FindCode(1, text)
    IN  IF i = 0
        THEN Returned("activate_code", "NotFound", NoKind, text)
        ELSE Returned("activate_code", "Activated", codes[order[i]].kind, text)

\* Mutant of ActivateCodeResult: a code whose dependencies are not all
\* activated is not redeemable.
ActivateCodeResultGated(text) ==
    LET i == FindCode(1, text)
    IN  IF i = 0 \/ MissingDeps(codes[order[i]]) # 0
        THEN Returned("activate_code", "NotFound", NoKind, text)
        ELSE IF IsCodeActivated(codes[order[i]].kind)
             THEN Returned("activate_code", "AlreadyActivated", codes[order[i]].kind, text)
             ELSE Returned("activate_code", "Activated", codes[order[i]].kind, text)

\* What activate_code(text) returns in the current state.
ActivateCodeResult(text) ==
    LET i == FindCode(1, text)
    IN  IF i = 0
        THEN Returned("activate_code", "NotFound", NoKind, text)
        ELSE IF IsCodeActivated(codes[order[i]].kind)
             THEN Returned("activate_code", "AlreadyActivated", codes[order[i]].kind, text)
             ELSE Returned("activate_code", "Activated", codes[order[i]].kind, text)

\* Mutant of ActivatedAfter: the push is missing.
ActivatedAfterNoPush(r) == activated

\* Mutant of ActivatedAfter: the vector is rebuilt around the new kind.
ActivatedAfterReplacing(r) ==
    IF r.outcome = "Activated" THEN SetToBag({ r.kind }) ELSE activated

\* self.activated after an activate_code call that returns r: pushed to on
\* the Activated branch only.
ActivatedAfter(r) ==
    IF r.outcome = "Activated"
    THEN activated (+) SetToBag({ r.kind })
    ELSE activated

\* A panic unwinds out of the caller: nothing runs on the resource after it.
Panicked == result.outcome = "Panic"

\* The effect of one activate_code(text) call on the resource.
ActivateCode(text) ==
    /\ ~Panicked
    /\ result' = ActivateCodeResult(text)
    /\ activated' = ActivatedAfter(result')
    /\ granted' = IF result'.outcome = "Activated"
                  THEN granted \cup { [text |-> text, kind |-> result'.kind] }
                  ELSE granted
    /\ UNCHANGED << codes, order, generated, player >>

(***************************************************************************)
(* The host: any sequence of calls, in any order                           *)
(***************************************************************************)
\* The texts the host submits: every text of the catalog, the empty string,
\* a string of a wrong length (a proper prefix of the text of Jump), and a
\* string of the length of a Common code that no insert_cheat generated.
RedeemInputs ==
    { codes[k].text : k \in DOMAIN codes } \cup
    { << >>, << "B", "A", "A" >>, SampleString(0, CodeLength("Common")) }

\* The host redeems a text (the session is cut off at MaxActivated
\* activations).
Redeem ==
    \E text \in RedeemInputs :
        /\ ActivateCode(text)
        /\ BagCardinality(activated') <= MaxActivated
        /\ UNCHANGED callers

\* Mutant of GetNextCode: the code that is returned is activated at once.
GetNextCodeActivating ==
    /\ ~Panicked
    /\ \E r \in GetNextCodeResults :
          /\ result' = r
          /\ activated' = IF r.outcome = "Kind"
                          THEN activated (+) SetToBag({ r.kind })
                          ELSE activated
    /\ UNCHANGED << codes, order, granted, callers, generated, player >>

\* The host asks for the next code to offer.
GetNextCode ==
    /\ ~Panicked
    /\ \E r \in GetNextCodeResults : result' = r
    /\ UNCHANGED << codes, order, activated, granted, callers, generated, player >>

\* The host asks whether a kind is activated.
QueryActivated ==
    /\ ~Panicked
    /\ \E kind \in CheatCodeKind :
          result' = Returned("is_code_activated",
                             IF IsCodeActivated(kind) THEN "true" ELSE "false",
                             kind, NoText)
    /\ UNCHANGED << codes, order, activated, granted, callers, generated, player >>

Next == Redeem \/ GetNextCode \/ QueryActivated

Spec == Init /\ [][Next]_vars

(***************************************************************************)
(* The host that follows the offers: it asks for the next code, shows its  *)
(* text to the player, and the player redeems that text.                   *)
(***************************************************************************)
\* The text of the code that get_next_code returned last is redeemed.
RedeemOffered ==
    /\ result.op = "get_next_code"
    /\ result.outcome = "Kind"
    /\ ActivateCode(codes[result.kind].text)
    /\ UNCHANGED callers

NextOffer == GetNextCode \/ RedeemOffered

SpecOffer == Init /\ [][NextOffer]_vars

(***************************************************************************)
(* Several callers behind one lock: &mut self makes every activate_code    *)
(* call exclusive, so each call is one atomic step, in any order.          *)
(***************************************************************************)
\* Before the callers come, the host redeems texts as in Spec.
Warmup ==
    /\ \A c \in DOMAIN callers : callers[c].pc = "idle"
    /\ Redeem

\* All callers ask to redeem the same text of the catalog, which no
\* activate_code call was given before.
Issue ==
    /\ ~Panicked
    /\ \A c \in DOMAIN callers : callers[c].pc = "idle"
    /\ \E k \in DOMAIN codes :
          /\ \A g \in granted : g.text # codes[k].text
          /\ callers' = [ c \in DOMAIN callers |->
                            [pc |-> "issued", text |-> codes[k].text,
                             outcome |-> "None", kind |-> NoKind] ]
    /\ UNCHANGED << codes, order, activated, result, granted, generated, player >>

\* The call of caller c runs, alone, from its first line to its return.
CallerActivate(c) ==
    /\ callers[c].pc = "issued"
    /\ ActivateCode(callers[c].text)
    /\ callers' = [ callers EXCEPT ![c] =
                      [pc |-> "done", text |-> callers[c].text,
                       outcome |-> result'.outcome, kind |-> result'.kind] ]

NextConc == Warmup \/ Issue \/ \E c \in DOMAIN callers : CallerActivate(c)

SpecConc == Init /\ [][NextConc]_vars

(***************************************************************************)
(* SpecRounds: the host loop, one round per step: get_next_code, then      *)
(* activate_code of the text of the kind it returned. The loop keeps       *)
(* going as long as a round can be made.                                   *)
(***************************************************************************)
OfferRound ==
    /\ ~Panicked
    /\ \E r \in GetNextCodeResults :
          IF r.outcome = "Kind"
          THEN ActivateCode(codes[r.kind].text)
          ELSE /\ result' = r
               /\ UNCHANGED << codes, order, activated, granted, generated, player >>
    /\ UNCHANGED callers

NextRounds == OfferRound

SpecRounds == Init /\ [][NextRounds]_vars /\ WF_vars(OfferRound)

(***************************************************************************)
(* SpecGen: the host calls the public generate_random_code with any        *)
(* rarity; the random generator yields one of the values GeneratorDraws.   *)
(***************************************************************************)
\* Values of the random generator: MaxSeed + 1 of them, SeedStride apart so
\* that the leading characters of the sampled strings differ too.
GeneratorDraws == { i * SeedStride : i \in 0..MaxSeed }

\* generate_random_code(rarity)
Generate ==
    /\ \E rarity \in CheatCodeRarity, seed \in GeneratorDraws :
          generated' = [rarity |-> rarity, seed |-> seed,
                        text |-> GenerateRandomCode(rarity, seed)]
    /\ UNCHANGED << codes, order, activated, result, granted, callers, player >>

NextGen == Generate

SpecGen == Init /\ [][NextGen]_vars

(***************************************************************************)
(* SpecScript: the host redeems the codes of the whole catalog without     *)
(* looking at the offers, working through one of two lists: the enum order *)
(* (dependencies first) or its reverse (dependents first, which skips      *)
(* every dependency); it may change list at every call.                    *)
(***************************************************************************)
RedeemScripts == { KindOrder, Reverse(KindOrder) }

\* The first kind of the script that is not activated, NoKind if none is left.
FirstLocked(script) ==
    LET locked == { i \in DOMAIN script : ~IsCodeActivated(script[i]) }
    IN  IF locked = {} THEN NoKind
        ELSE script[CHOOSE i \in locked : \A j \in locked : i <= j]

\* The host redeems the code of the next kind of one of its scripts.
RedeemScripted ==
    \E script \in RedeemScripts :
        /\ FirstLocked(script) # NoKind
        /\ ActivateCode(codes[FirstLocked(script)].text)
        /\ UNCHANGED callers

NextScript == RedeemScripted \/ GetNextCode

SpecScript == Init /\ [][NextScript]_vars

(***************************************************************************)
(* SpecPlayer: the frames of runner/player.rs move_character, run between  *)
(* the redemptions of SpecScript. Of rb_vel.linvel.x (an f32) the model    *)
(* keeps the sign; where the sign of the result depends on the magnitude,  *)
(* every sign is possible. physics::jump is outside src: the model records *)
(* that it was called and lets it leave any horizontal velocity.           *)
(***************************************************************************)
Signs == { -1, 0, 1 }

\* let x_axis = -(left as i8) + right as i8;
XAxis(left, right) == (IF right THEN 1 ELSE 0) - (IF left THEN 1 ELSE 0)

\* The signs linvel.x can have after the if / else if / else on x_axis:
\* accelerating from rest or in the direction of motion gives the sign of
\* x_axis (the clamp to player.speed keeps the sign); accelerating against
\* the motion, and decelerating by player.deceleration (larger than the 0.01
\* threshold), can stop short of zero, reach it or pass it; below the
\* threshold the velocity is set to 0.0.
LinvelAfter(sign, x_axis) ==
    IF x_axis # 0
    THEN IF sign \in { 0, x_axis } THEN { x_axis } ELSE Signs
    ELSE IF sign # 0 THEN Signs ELSE { 0 }

\* Mutant of Jump: the is_code_activated test is missing.
JumpUngated(space_released) == space_released

\* let jump = cheat_codes.is_code_activated(&CheatCodeKind::Jump)
\*     && keyboard_input.just_released(KeyCode::Space);
Jump(space_released) == IsCodeActivated("Jump") /\ space_released

\* One frame of move_character for the player entity, with the keys A, D
\* held or not and Space just released or not.
MoveCharacter ==
    /\ ~Panicked
    /\ \E left, right, space_released \in BOOLEAN :
          \E moved \in LinvelAfter(player.linvel_x, XAxis(left, right)) :
              \E sign \in (IF Jump(space_released) THEN Signs ELSE { moved }) :
                  player' = [linvel_x |-> sign,
                             space |-> space_released,
                             jumped |-> Jump(space_released)]
    /\ result' = Returned("is_code_activated",
                          IF IsCodeActivated("Jump") THEN "true" ELSE "false",
                          "Jump", NoText)
    /\ UNCHANGED << codes, order, activated, granted, callers, generated >>

NextPlayer == RedeemScripted \/ MoveCharacter

SpecPlayer == Init /\ [][NextPlayer]_vars

(***************************************************************************)
(* Properties                                                              *)
(***************************************************************************)
\* The Mandatory kinds of the catalog that are not activated.
LockedMandatory ==
    { k \in DOMAIN codes : codes[k].rarity = "Mandatory" /\ ~BagIn(k, activated) }

\* C1 (mandatory first): in every state reachable by redeem calls in which a
\* Mandatory ability is not activated, every value get_next_code can return,
\* and the value the last get_next_code call did return, is a Mandatory
\* ability that is not activated; from the empty activation state it can
\* only return Jump.
C1_MandatoryFirst ==
    /\ LockedMandatory # {} =>
          /\ \A r \in GetNextCodeResults :
                r.outcome = "Kind" /\ r.kind \in LockedMandatory
          /\ result.op = "get_next_code" =>
                result.outcome = "Kind" /\ result.kind \in LockedMandatory
    /\ activated = EmptyBag =>
          /\ \A r \in GetNextCodeResults : r.outcome = "Kind" /\ r.kind = "Jump"
          /\ result.op = "get_next_code" => result.kind = "Jump"

\* get_next_code returned Jump while Jump was locked and other abilities
\* (without dependencies, one of them activated) were there to choose from.
C1_Witness ==
    /\ result.op = "get_next_code"
    /\ result.kind = "Jump"
    /\ BagIn("Crouch", activated)
    /\ ~BagIn("Attack", activated)
    /\ ~BagIn("Jump", activated)

\* The dependencies of a kind, as the set of the elements of the Vec.
DependencySet(kind) ==
    { codes[kind].dependencies[i] : i \in DOMAIN codes[kind].dependencies }

\* C2 (dependency gating): in every reachable state get_next_code neither can
\* return nor has just returned an ability one of whose dependencies is not
\* activated; with only Jump activated it returns neither Fly nor
\* TempInvicibility.
C2_DependencyGating ==
    /\ \A r \in GetNextCodeResults :
          r.outcome = "Kind" => \A d \in DependencySet(r.kind) : BagIn(d, activated)
    /\ (result.op = "get_next_code" /\ result.outcome = "Kind") =>
          \A d \in DependencySet(result.kind) : BagIn(d, activated)
    /\ BagToSet(activated) = { "Jump" } =>
          /\ \A r \in GetNextCodeResults : r.kind \notin { "Fly", "TempInvicibility" }
          /\ result.op = "get_next_code" =>
                result.kind \notin { "Fly", "TempInvicibility" }

\* With only Jump activated get_next_code returned an ability that has
\* dependencies (DoubleJump or Shield, both depending on Jump).
C2_Witness ==
    /\ BagToSet(activated) = { "Jump" }
    /\ result.op = "get_next_code"
    /\ result.outcome = "Kind"
    /\ DependencySet(result.kind) # {}

\* C3 (no re-offer after unlock): for every id that some activate_code call
\* returned Activated(id) for, in every later state id is activated,
\* get_next_code neither can return nor has just returned id, and an
\* is_code_activated(id) call has returned true.
C3_NoReoffer ==
    \A g \in granted :
        /\ BagIn(g.kind, activated)
        /\ \A r \in GetNextCodeResults : r.kind # g.kind
        /\ result.op = "get_next_code" => result.kind # g.kind
        /\ (result.op = "is_code_activated" /\ result.kind = g.kind) =>
              result.outcome = "true"

\* After some activation, get_next_code was called and returned a kind.
C3_Witness ==
    /\ granted # {}
    /\ result.op = "get_next_code"
    /\ result.outcome = "Kind"

\* The kind of the first code, in iteration order, whose text equals text;
\* NoKind when no code has that text.
FirstMatchKind(text) ==
    LET hits == { i \in DOMAIN order : codes[order[i]].text = text }
    IN  IF hits = {} THEN NoKind
        ELSE codes[order[CHOOSE i \in hits : \A j \in hits : i <= j]].kind

\* C4 (idempotent redemption): an activate_code(c) call made while the
\* ability matched by c is locked returns Activated(id) and leaves id once in
\* the activation state; every activate_code(c) call made after one that
\* returned Activated(id) returns AlreadyActivated(id), with the same id, and
\* leaves the activation state (contents and size) unchanged.
C4_IdempotentRedemption ==
    [][ result'.op = "activate_code" =>
          /\ ( /\ FirstMatchKind(result'.text) # NoKind
               /\ ~BagIn(FirstMatchKind(result'.text), activated) ) =>
                /\ result'.outcome = "Activated"
                /\ result'.kind = FirstMatchKind(result'.text)
                /\ CopiesIn(result'.kind, activated') = 1
          /\ \A g \in granted :
                g.text = result'.text =>
                    /\ result'.outcome = "AlreadyActivated"
                    /\ result'.kind = g.kind
                    /\ activated' = activated
                    /\ BagCardinality(activated') = BagCardinality(activated)
      ]_vars

\* A text that was redeemed with Activated(id) before has been redeemed
\* again, with another activation in between, and returned
\* AlreadyActivated(id).
C4_Witness ==
    /\ result.op = "activate_code"
    /\ result.outcome = "AlreadyActivated"
    /\ [text |-> result.text, kind |-> result.kind] \in granted
    /\ Cardinality(granted) = 2

\* C5 (unknown code): an activate_code(text) call returns NotFound exactly
\* when no code of the catalog has the text text (the empty string and
\* strings of a wrong length among them), and a call that returns NotFound
\* leaves the activation state and the catalog unchanged.
C5_UnknownCode ==
    [][ result'.op = "activate_code" =>
          /\ (\A k \in DOMAIN codes : codes[k].text # result'.text)
                <=> result'.outcome = "NotFound"
          /\ result'.outcome = "NotFound" =>
                activated' = activated /\ codes' = codes /\ order' = order
      ]_vars

\* The empty string was redeemed, in a state with activated abilities, and
\* NotFound came back.
C5_Witness ==
    /\ result.op = "activate_code"
    /\ result.text = << >>
    /\ result.outcome = "NotFound"
    /\ activated # EmptyBag

\* C6 (per-ability state machine): after construction no ability is
\* activated; an activated ability stays activated in every step; and an
\* ability becomes activated only in an activate_code step that returns
\* Activated of that ability.
C6_StateMachine ==
    /\ activated = EmptyBag
    /\ [][ \A k \in CheatCodeKind :
             /\ BagIn(k, activated) => BagIn(k, activated')
             /\ (~BagIn(k, activated) /\ BagIn(k, activated')) =>
                   /\ result'.op = "activate_code"
                   /\ result'.outcome = "Activated"
                   /\ result'.kind = k
         ]_vars

\* A second ability has just been unlocked by an activate_code call.
C6_Witness ==
    /\ result.op = "activate_code"
    /\ result.outcome = "Activated"
    /\ BagCardinality(activated) = 2

\* C7 (queries have no effect): a get_next_code or is_code_activated step
\* leaves the activation state and the catalog unchanged, so that the kind
\* get_next_code returned is still locked after the call and the set of the
\* values the next get_next_code call can return is the same, the returned
\* one among them.
C7_QueriesPure ==
    [][ result'.op \in { "get_next_code", "is_code_activated" } =>
          /\ activated' = activated
          /\ codes' = codes
          /\ order' = order
          /\ GetNextCodeResults' = GetNextCodeResults
          /\ (result'.op = "get_next_code" /\ result'.outcome = "Kind") =>
                /\ ~BagIn(result'.kind, activated')
                /\ result' \in GetNextCodeResults'
      ]_vars

\* get_next_code has returned a kind, which is locked, in a state with two
\* activated abilities.
C7_Witness ==
    /\ result.op = "get_next_code"
    /\ result.outcome = "Kind"
    /\ ~BagIn(result.kind, activated)
    /\ BagCardinality(activated) = 2

\* C8 as stated: an activate_code(text) call whose text is the text of some
\* locked ability returns Activated(id) for an ability id of that text and
\* adds exactly id to the activation state.
C8_Original ==
    [][ ( /\ result'.op = "activate_code"
          /\ \E k \in DOMAIN codes :
                codes[k].text = result'.text /\ ~BagIn(k, activated) ) =>
          /\ result'.outcome = "Activated"
          /\ codes[result'.kind].text = result'.text
          /\ activated' = activated (+) SetToBag({ result'.kind })
      ]_vars

\* C8 (amended): an activate_code(text) call for which the first code of
\* text text, in the iteration order of the catalog, belongs to a locked
\* ability id returns Activated(id) and adds exactly id, once, to the
\* activation state, changing no other ability and not the catalog, whatever
\* the rarity of id and whether or not its dependencies are activated.
C8_RedeemLocked ==
    [][ ( /\ result'.op = "activate_code"
          /\ FirstMatchKind(result'.text) # NoKind
          /\ ~BagIn(FirstMatchKind(result'.text), activated) ) =>
          /\ result' = Returned("activate_code", "Activated",
                                FirstMatchKind(result'.text), result'.text)
          /\ activated' = activated (+) SetToBag({ FirstMatchKind(result'.text) })
          /\ codes' = codes
          /\ order' = order
      ]_vars

\* Fly (Legendary) was unlocked by its text while its dependencies Jump and
\* DoubleJump were locked, hence without ever having been offered.
C8_Witness ==
    /\ result = Returned("activate_code", "Activated", "Fly", codes["Fly"].text)
    /\ ~BagIn("Jump", activated)
    /\ ~BagIn("DoubleJump", activated)
    /\ BagIn("Fly", activated)

\* C9 (no eligible candidate): a get_next_code call made when every ability
\* of the catalog is activated panics, returns no kind, and leaves the
\* activation state unchanged.
C9_ExhaustedPanics ==
    [][ ( /\ result'.op = "get_next_code"
          /\ \A k \in DOMAIN codes : BagIn(k, activated) ) =>
          /\ result' = Returned("get_next_code", "Panic", NoKind, NoText)
          /\ activated' = activated
      ]_vars

\* get_next_code was called with all 18 abilities activated, and panicked.
C9_Witness ==
    /\ result.op = "get_next_code"
    /\ result.outcome = "Panic"
    /\ BagToSet(activated) = CheatCodeKind
    /\ BagCardinality(activated) = Len(InsertCalls)

\* The callers whose call has returned.
DoneCallers == { c \in DOMAIN callers : callers[c].pc = "done" }

\* C10 (exclusive access): when several callers redeem the same valid text,
\* not redeemed before, in calls that exclude each other, then whatever the
\* order of the calls exactly one of the calls that have returned reports
\* Activated(id), all the others report AlreadyActivated(id) with the same
\* id, and id is in the activation state exactly once.
C10_OneActivation ==
    DoneCallers # {} =>
        \E id \in CheatCodeKind :
            /\ Cardinality({ c \in DoneCallers : callers[c].outcome = "Activated" }) = 1
            /\ \A c \in DoneCallers :
                  /\ callers[c].outcome \in { "Activated", "AlreadyActivated" }
                  /\ callers[c].kind = id
            /\ CopiesIn(id, activated) = 1

\* Every caller has returned, after a host session that had activated other
\* abilities.
C10_Witness ==
    /\ DoneCallers = DOMAIN callers
    /\ Cardinality(DoneCallers) >= 2
    /\ BagCardinality(activated) >= 2

(***************************************************************************)
(* C11                                                                     *)
(***************************************************************************)

\* The static catalog as the specification lists it: id -> rarity ->
\* dependencies (TempInvicibility under the name the enum gives it).
StaticCatalog ==
    [ k \in CheatCodeKind |->
        CASE k = "Jump" -> [rarity |-> "Mandatory", dependencies |-> {}]
          [] k \in {"Crouch", "Attack", "MoveLeft", "SpeedBoost1", "Armor", "Dash"} ->
                [rarity |-> "Common", dependencies |-> {}]
          [] k \in {"AttackDmgBoost", "AttackFireRateBoost"} ->
                [rarity |-> "Common", dependencies |-> {"Attack"}]
          [] k = "SpeedBoost2" ->
                [rarity |-> "Common", dependencies |-> {"SpeedBoost1"}]
          [] k = "SpeedBoost3" ->
                [rarity |-> "Common", dependencies |-> {"SpeedBoost1", "SpeedBoost2"}]
          [] k \in {"DoubleJump", "Shield"} ->
                [rarity |-> "Rare", dependencies |-> {"Jump"}]
          [] k = "SpeedBoost4" ->
                [rarity |-> "Rare",
                 dependencies |-> {"SpeedBoost1", "SpeedBoost2", "SpeedBoost3"}]
          [] k = "SpeedBoost5" ->
                [rarity |-> "Rare",
                 dependencies |-> {"SpeedBoost1", "SpeedBoost2", "SpeedBoost3",
                                   "SpeedBoost4"}]
          [] k = "ExtraLife" -> [rarity |-> "Legendary", dependencies |-> {}]
          [] k = "TempInvicibility" ->
                [rarity |-> "Legendary", dependencies |-> {"Armor", "Shield"}]
          [] k = "Fly" ->
                [rarity |-> "Legendary", dependencies |-> {"Jump", "DoubleJump"}] ]

\* The entries of map left after repeatedly removing every entry none of
\* whose dependencies is left: empty exactly when the dependency graph has
\* no cycle and no dependency outside the map.
RECURSIVE Unsorted(_, _)
Unsorted(map, remaining) ==
    LET free == { k \in remaining :
                    \A i \in DOMAIN map[k].dependencies :
                        /\ map[k].dependencies[i] \in DOMAIN map
                        /\ map[k].dependencies[i] \notin remaining }
    IN  IF free = {} THEN remaining ELSE Unsorted(map, remaining \ free)

CatalogWellFormed ==
    /\ DOMAIN codes = CheatCodeKind
    /\ Cardinality(DOMAIN codes) = 18
    /\ \A k \in DOMAIN codes :
          /\ codes[k].kind = k
          /\ codes[k].rarity = StaticCatalog[k].rarity
          /\ DependencySet(k) = StaticCatalog[k].dependencies
          /\ DependencySet(k) \subseteq DOMAIN codes
    /\ Unsorted(codes, DOMAIN codes) = {}

\* C11: in every reachable state the catalog has exactly one entry per
\* CheatCodeKind variant (18 entries), each with the rarity and the
\* dependency set of the static catalog, every dependency is a key of the
\* catalog, the dependency graph is acyclic, and no step of any operation
\* changes the catalog.
C11_CatalogWellFormed ==
    /\ []CatalogWellFormed
    /\ [][codes' = codes]_vars

\* The well-formed catalog has been used: two abilities were redeemed, an
\* offer was computed from it, and Fly still has its two dependencies.
C11_Witness ==
    /\ BagCardinality(activated) = 2
    /\ result.op = "get_next_code"
    /\ result.outcome = "Kind"
    /\ DependencySet("Fly") = {"Jump", "DoubleJump"}
    /\ CatalogWellFormed

(***************************************************************************)
(* C13                                                                     *)
(***************************************************************************)

\* The code-length policy of the specification.
PolicyLength ==
    [ r \in CheatCodeRarity |->
        IF r = "Legendary" THEN 8 ELSE IF r = "Rare" THEN 6 ELSE 4 ]

Letters ==
    { "A", "B", "C", "D", "E", "F", "G", "H", "I", "J", "K", "L", "M",
      "N", "O", "P", "Q", "R", "S", "T", "U", "V", "W", "X", "Y", "Z",
      "a", "b", "c", "d", "e", "f", "g", "h", "i", "j", "k", "l", "m",
      "n", "o", "p", "q", "r", "s", "t", "u", "v", "w", "x", "y", "z" }

Digits == { "0", "1", "2", "3", "4", "5", "6", "7", "8", "9" }

HasShape(text, rarity) ==
    /\ Len(text) = PolicyLength[rarity]
    /\ \A i \in DOMAIN text : text[i] \in Letters \cup Digits

\* C13: every string generate_random_code returns has the length of the
\* rarity it was asked for (4 for Mandatory and Common, 6 for Rare, 8 for
\* Legendary) and only alphanumeric characters, and the secret code of every
\* catalog entry has the shape of the entry's own rarity.
C13_GeneratedCodeShape ==
    /\ generated # NotGenerated => HasShape(generated.text, generated.rarity)
    /\ \A k \in DOMAIN codes : HasShape(codes[k].text, codes[k].rarity)

\* A Legendary code of eight characters was generated from a large draw, and
\* the catalog holds the 6-character code of a Rare ability.
C13_Witness ==
    /\ generated.rarity = "Legendary"
    /\ generated.seed > 0
    /\ Len(generated.text) = 8
    /\ generated.text[5] # "A"
    /\ Len(codes["Shield"].text) = 6

(***************************************************************************)
(* C15                                                                     *)
(***************************************************************************)
Locked == { k \in DOMAIN codes : ~BagIn(k, activated) }

Shadowed ==
    { order[j] : j \in { j \in DOMAIN order :
                          \E i \in 1..(j - 1) :
                              codes[order[i]].text = codes[order[j]].text } }

\* The kinds that share the text of kind k, k included.
Colliding(k) == { j \in DOMAIN codes : codes[j].text = codes[k].text }

\* C16 (collision, first match wins): every activate_code call that finds a
\* text resolves it to the first ability of the catalog's iteration order
\* that has this text, on every call; hence of the abilities that were
\* generated with one text at most one is ever activated, those that come
\* later in the iteration order are locked in every reachable state, and
\* get_next_code still returns them: as the locked Mandatory, or in the
\* draw once their dependencies are activated and no Mandatory is locked.
C16_FirstMatchWins ==
    /\ result.op = "activate_code" /\ result.outcome # "NotFound" =>
          result.kind = FirstMatchKind(result.text)
    /\ \A g \in granted : g.kind = FirstMatchKind(g.text)
    /\ \A k \in DOMAIN codes :
          Cardinality({ j \in Colliding(k) : BagIn(j, activated) }) <= 1
    /\ \A k \in Shadowed :
          /\ ~BagIn(k, activated)
          /\ ( \/ k \in Mandatories
               \/ Mandatories = {} /\ MissingDeps(codes[k]) = 0 ) =>
                Returned("get_next_code", "Kind", k, NoText) \in GetNextCodeResults

\* Jump and Dash were generated with the same text and Dash comes first in
\* the iteration: the text was redeemed twice, the first call activated Dash,
\* the second returned AlreadyActivated(Dash), Jump is locked and
\* get_next_code offers it.
C16_Witness ==
    /\ codes["Jump"].text = codes["Dash"].text
    /\ "Jump" \in Shadowed
    /\ [text |-> codes["Jump"].text, kind |-> "Dash"] \in granted
    /\ result = Returned("activate_code", "AlreadyActivated", "Dash", codes["Jump"].text)
    /\ ~BagIn("Jump", activated)
    /\ Returned("get_next_code", "Kind", "Jump", NoText) \in GetNextCodeResults

(***************************************************************************)
(* C17                                                                     *)
(***************************************************************************)
\* new() generated 18 pairwise distinct texts.
DistinctTexts ==
    \A j, k \in DOMAIN codes : j # k => codes[j].text # codes[k].text

AllActivated == \A k \in DOMAIN codes : BagIn(k, activated)

\* What holds after every round of the offer loop: the redeem of the round
\* returned Activated, each round so far activated one more ability (the
\* rounds are the elements of granted), Jump was the first, and all
\* abilities are activated exactly when 18 rounds have been made.
OfferLoopProgress ==
    /\ result.op = "activate_code" =>
          /\ result.outcome = "Activated"
          /\ [text |-> result.text, kind |-> result.kind] \in granted
    /\ \A g \in granted : g.text = codes[g.kind].text
    /\ BagCardinality(activated) = Cardinality(granted)
    /\ BagToSet(activated) = { g.kind : g \in granted }
    /\ granted # {} => BagIn("Jump", activated)
    /\ AllActivated <=> Cardinality(granted) = 18

\* C17 (eventual exhaustion): when the 18 texts are pairwise distinct and
\* the host repeats get_next_code followed by activate_code of the text of
\* the kind returned, every such activate_code returns Activated, Jump is
\* the first ability activated, and the loop reaches, after exactly 18
\* rounds, the state in which every ability is activated.
C17_EventualExhaustion ==
    /\ [](DistinctTexts => OfferLoopProgress)
    /\ DistinctTexts => <>AllActivated

\* The 18th round of a session without collisions has just returned
\* Activated: every ability is activated.
C17_Witness ==
    /\ DistinctTexts
    /\ result.op = "activate_code"
    /\ result.outcome = "Activated"
    /\ Cardinality(granted) = 18
    /\ AllActivated

(***************************************************************************)
(* C18                                                                     *)
(***************************************************************************)
\* Every activated ability has all its dependencies activated.
DependencyClosed ==
    \A k \in BagToSet(activated) :
        \A d \in DependencySet(k) : BagIn(d, activated)

\* No text that was redeemed with success is the text of two abilities: each
\* redemption then activated the very ability whose text was submitted.
Unambiguous ==
    \A g \in granted : \A k \in DOMAIN codes : codes[k].text = g.text => k = g.kind

\* C18 (dependency-closed activation under the offer protocol): in a session
\* in which the host only redeems the text of the kind get_next_code returned
\* last, every activate_code call that activates that very kind finds all
\* the dependencies of the kind activated and keeps the activation state
\* closed under dependencies; and as long as each successful redemption
\* activated the ability that was offered, every activated ability has all
\* of its dependencies activated.
C18_DependencyClosed ==
    /\ [](Unambiguous => DependencyClosed)
    /\ [][ ( /\ result.op = "get_next_code"
             /\ result'.op = "activate_code"
             /\ result'.outcome = "Activated"
             /\ result'.kind = result.kind ) =>
             /\ \A d \in DependencySet(result'.kind) : BagIn(d, activated)
             /\ DependencyClosed => DependencyClosed'
         ]_vars

\* Fly was offered and then redeemed, after its dependencies Jump and
\* DoubleJump had been offered and redeemed.
C18_Witness ==
    /\ result = Returned("activate_code", "Activated", "Fly", codes["Fly"].text)
    /\ { "Jump", "DoubleJump", "Fly" } \subseteq { g.kind : g \in granted }
    /\ Unambiguous
    /\ DependencyClosed

(***************************************************************************)
(* C19                                                                     *)
(***************************************************************************)
\* C19 (no duplicates): in every reachable state every ability id occurs at
\* most once in activated, every id in it is a key of the catalog, its
\* length is at most the size of the catalog, 18, and equals the number of
\* activate_code calls that returned Activated.
C19_NoDuplicates ==
    /\ \A k \in BagToSet(activated) :
          /\ CopiesIn(k, activated) = 1
          /\ k \in DOMAIN codes
    /\ BagCardinality(activated) <= Cardinality(DOMAIN codes)
    /\ BagCardinality(activated) <= 18
    /\ BagCardinality(activated) = Cardinality(granted)

\* Seventeen abilities were redeemed, some before their dependencies, and a
\* text that had been redeemed before was submitted again.
C19_Witness ==
    /\ BagCardinality(activated) = 17
    /\ Cardinality(granted) = 17
    /\ result.op = "activate_code"
    /\ result.outcome = "AlreadyActivated"
    /\ BagIn("Fly", activated)
    /\ ~BagIn("Jump", activated)

(***************************************************************************)
(* C20                                                                     *)
(***************************************************************************)
\* C20 (jump gating in the host): a frame of move_character calls
\* physics::jump only if Jump is activated in the resource at that frame and
\* Space was just released; as long as no activate_code call has returned
\* Activated(Jump) no frame has jumped; and a frame changes neither the
\* activation state nor the catalog.
C20_JumpGated ==
    /\ [](player.jumped =>
            /\ player.space
            /\ BagIn("Jump", activated)
            /\ \E g \in granted : g.kind = "Jump")
    /\ [][ result'.op = "is_code_activated" =>
             /\ player'.jumped <=> (BagIn("Jump", activated) /\ player'.space)
             /\ activated' = activated
             /\ granted' = granted
             /\ codes' = codes
         ]_vars

\* Jump is activated and the last frame, in which Space was released and
\* the player was moving, called physics::jump.
C20_Witness ==
    /\ player.jumped
    /\ player.space
    /\ player.linvel_x # 0
    /\ BagIn("Jump", activated)
    /\ result = Returned("is_code_activated", "true", "Jump", NoText)

=============================================================================
